---------------------------- MODULE Spec2Model ----------------------------
(***************************************************************************)
(* A model of MCP_finance_agent.py: eleven tools that fetch the `info`     *)
(* record of a ticker from an external lookup (yfinance) and render it as  *)
(* text.                                                                   *)
(*                                                                         *)
(* Representation.                                                         *)
(*  - Python str is a TLA+ string; the operators below work on it          *)
(*    character by character (SubSeq, Len, \o).                            *)
(*  - A Python number is a record with its type ("int" or "float"), its    *)
(*    sign and its magnitude in ten-thousandths, written as a decimal      *)
(*    digit string of any length (Python ints are unbounded).  The floats  *)
(*    of the model have at most 4 decimals and at most 15 significant      *)
(*    digits, so that the double nearest to them formats as they do; a     *)
(*    rounding tie is in the model only where the double is exact          *)
(*    (0.125, 2.5), and there CPython rounds half to even.                 *)
(*  - A raised exception is a result record with ok = FALSE, the class     *)
(*    of the exception and its message.                                    *)
(*  - The report templates use characters the TLA+ lexer does not accept:  *)
(*    the bullet is written "*", the box-drawing rule is written with      *)
(*    "=", and the emoji that open some headings are left out.             *)
(***************************************************************************)
EXTENDS Integers, Sequences, FiniteSets, TLC

(***************************************************************************)
(* Strings.                                                                *)
(***************************************************************************)
CharAt(s, i) == SubSeq(s, i, i)

Contains(s, sub) ==
    \E i \in 1..(Len(s) - Len(sub) + 1) : SubSeq(s, i, i + Len(sub) - 1) = sub

StartsWith(s, p) == Len(p) <= Len(s) /\ SubSeq(s, 1, Len(p)) = p

EndsWith(s, p) == Len(p) <= Len(s) /\ SubSeq(s, Len(s) - Len(p) + 1, Len(s)) = p

Lower == "abcdefghijklmnopqrstuvwxyz"

UpperLetters == "ABCDEFGHIJKLMNOPQRSTUVWXYZ"

\* str.upper() of one character: a lowercase letter maps to its capital,
\* every other character of the model's alphabet to itself.
UpperChar(c) ==
    IF \E i \in 1..26 : CharAt(Lower, i) = c
    THEN CharAt(UpperLetters, CHOOSE i \in 1..26 : CharAt(Lower, i) = c)
    ELSE c

RECURSIVE Upper(_)
Upper(s) == IF s = "" THEN "" ELSE UpperChar(CharAt(s, 1)) \o Upper(Tail(s))

IsSpace(c) == c \in {" ", "\n", "\t"}

\* str.strip(): whitespace removed from both ends.
RECURSIVE LStrip(_)
LStrip(s) == IF s # "" /\ IsSpace(CharAt(s, 1)) THEN LStrip(Tail(s)) ELSE s

RECURSIVE RStrip(_)
RStrip(s) ==
    IF s # "" /\ IsSpace(CharAt(s, Len(s)))
    THEN RStrip(SubSeq(s, 1, Len(s) - 1))
    ELSE s

Strip(s) == RStrip(LStrip(s))

(***************************************************************************)
(* Natural numbers as decimal digit strings (no leading zero but "0").     *)
(***************************************************************************)
DigitChars == "0123456789"

DigitChar(d) == CharAt(DigitChars, d + 1)

DigitVal(c) == CHOOSE d \in 0..9 : DigitChar(d) = c

RECURSIVE Norm(_)
Norm(d) == IF Len(d) > 1 /\ CharAt(d, 1) = "0" THEN Norm(Tail(d)) ELSE d

\* s repeated n times
RECURSIVE Rep(_, _)
Rep(s, n) ==
    IF n <= 0 THEN ""
    ELSE IF n % 2 = 1 THEN s \o Rep(s \o s, n \div 2)
    ELSE Rep(s \o s, n \div 2)

Zeros(n) == Rep("0", n)

PadLeft(d, n) == Zeros(n - Len(d)) \o d

Init1(d) == SubSeq(d, 1, Len(d) - 1)

LastVal(d) == IF d = "" THEN 0 ELSE DigitVal(CharAt(d, Len(d)))

\* lexicographic order on digit strings of the same length
LexLess(a, b) ==
    \E i \in 1..Len(a) :
        /\ SubSeq(a, 1, i - 1) = SubSeq(b, 1, i - 1)
        /\ DigitVal(CharAt(a, i)) < DigitVal(CharAt(b, i))

LessNat(a, b) ==
    IF Len(a) # Len(b) THEN Len(a) < Len(b) ELSE LexLess(a, b)

RECURSIVE AddCarry(_, _, _)
AddCarry(a, b, c) ==
    IF a = "" /\ b = "" THEN (IF c = 1 THEN "1" ELSE "")
    ELSE IF c = 0 /\ (a = "" \/ b = "") THEN a \o b
    ELSE LET s == LastVal(a) + LastVal(b) + c
         IN  AddCarry(IF a = "" THEN "" ELSE Init1(a),
                      IF b = "" THEN "" ELSE Init1(b),
                      s \div 10) \o DigitChar(s % 10)

AddNat(a, b) == Norm(AddCarry(a, b, 0))

\* a - b for a >= b
RECURSIVE SubBorrow(_, _, _)
SubBorrow(a, b, c) ==
    IF a = "" THEN ""
    ELSE IF b = "" /\ c = 0 THEN a
    ELSE LET s == LastVal(a) - LastVal(b) - c
         IN  SubBorrow(Init1(a), IF b = "" THEN "" ELSE Init1(b),
                       IF s < 0 THEN 1 ELSE 0)
             \o DigitChar(IF s < 0 THEN s + 10 ELSE s)

SubNat(a, b) == Norm(SubBorrow(a, b, 0))

\* thousands separators of the "," format option
RECURSIVE Commas(_)
Commas(d) ==
    IF Len(d) <= 3 THEN d
    ELSE Commas(SubSeq(d, 1, Len(d) - 3)) \o "," \o SubSeq(d, Len(d) - 2, Len(d))

(***************************************************************************)
(* Python values.                                                          *)
(***************************************************************************)
NoneV == [t |-> "none", neg |-> FALSE, m |-> "0", s |-> ""]

Str(s) == [t |-> "str", neg |-> FALSE, m |-> "0", s |-> s]

\* the int (-)d, d a digit string
PyInt(neg, d) ==
    [t |-> "int", neg |-> neg /\ Norm(d) # "0",
     m |-> IF Norm(d) = "0" THEN "0" ELSE Norm(d) \o "0000", s |-> ""]

\* the float (-)ip.fp, fp four digits
PyFloat(neg, ip, fp) ==
    [t |-> "float", neg |-> neg, m |-> Norm(ip \o fp), s |-> ""]

IsNum(v) == v.t \in {"int", "float"}

Ok(v) == [ok |-> TRUE, v |-> v, exc |-> "", msg |-> ""]

Raise(cls, msg) == [ok |-> FALSE, v |-> "", exc |-> cls, msg |-> msg]

\* type(v).__name__, as the interpreter's messages print it
TypeName(v) == IF v.t = "none" THEN "NoneType" ELSE v.t

\* bool(v): None, zero and the empty string are false.
Truthy(v) ==
    CASE v.t = "none" -> FALSE
      [] v.t = "str"  -> v.s # ""
      [] OTHER        -> v.m # "0"

(***************************************************************************)
(* float(int) raises OverflowError when the int does not fit a double: the *)
(* largest double has 309 digits.  Ints of 310 digits and more overflow;   *)
(* the model holds no int of exactly 309 digits.                           *)
(***************************************************************************)
FloatOverflows(v) == v.t = "int" /\ Len(v.m) - 4 > 309

OverflowMsg == "int too large to convert to float"

\* The integer part and the last n digits of a digit string.
IntPart(d, n) == Norm(SubSeq(PadLeft(d, n + 1), 1, Len(PadLeft(d, n + 1)) - n))

FracPart(d, n) ==
    SubSeq(PadLeft(d, n + 1), Len(PadLeft(d, n + 1)) - n + 1, Len(PadLeft(d, n + 1)))

\* d with its last n digits rounded away, half to even (the ties of the
\* model are exact in binary, so the double rounds as the decimal does).
RoundHalfEven(q, r, half) ==
    IF LexLess(r, half) THEN q
    ELSE IF LexLess(half, r) THEN AddNat(q, "1")
    ELSE IF LastVal(q) % 2 = 0 THEN q ELSE AddNat(q, "1")

RoundDrop(d, n) == RoundHalfEven(IntPart(d, n), FracPart(d, n), "5" \o Zeros(n - 1))

Sign(v) == IF v.neg THEN "-" ELSE ""

\* f"{x:,.2f}" of a number given in hundredths h
Fixed2(neg, h) ==
    (IF neg THEN "-" ELSE "") \o Commas(IntPart(h, 2)) \o "." \o FracPart(h, 2)

\* f"{x:.2f}": no thousands separators
Fixed2Plain(neg, h) ==
    (IF neg THEN "-" ELSE "") \o IntPart(h, 2) \o "." \o FracPart(h, 2)

\* str(v) / f"{v}"
RECURSIVE DropZeros(_)
DropZeros(f) ==
    IF Len(f) > 1 /\ CharAt(f, Len(f)) = "0" THEN DropZeros(Init1(f)) ELSE f

PyStr(v) ==
    CASE v.t = "none"  -> "None"
      [] v.t = "str"   -> v.s
      [] v.t = "int"   -> Sign(v) \o IntPart(v.m, 4)
      [] v.t = "float" -> Sign(v) \o IntPart(v.m, 4) \o "." \o DropZeros(FracPart(v.m, 4))


(***************************************************************************)
(* Python arithmetic and indexing used by the tools.                       *)
(***************************************************************************)
\* a - b on signed magnitudes (x - x is +0)
SignedSub(an, am, bn, bm) ==
    IF an # bn THEN [neg |-> an, m |-> AddNat(am, bm)]
    ELSE IF am = bm THEN [neg |-> FALSE, m |-> "0"]
    ELSE IF LessNat(am, bm) THEN [neg |-> ~an, m |-> SubNat(bm, am)]
    ELSE [neg |-> an, m |-> SubNat(am, bm)]

\* a - b: ints subtract exactly; with a float operand the int operand is
\* converted to float first; any other operand type is a TypeError.
Difference(ty, d) ==
    Ok([t |-> ty, neg |-> IF ty = "int" THEN d.neg /\ d.m # "0" ELSE d.neg,
        m |-> d.m, s |-> ""])

PySub(a, b) ==
    IF ~(IsNum(a) /\ IsNum(b))
    THEN Raise("TypeError", "unsupported operand type(s) for -: '" \o TypeName(a)
                            \o "' and '" \o TypeName(b) \o "'")
    ELSE IF (a.t = "float" /\ FloatOverflows(b)) \/ (b.t = "float" /\ FloatOverflows(a))
    THEN Raise("OverflowError", OverflowMsg)
    ELSE Difference(IF a.t = "int" /\ b.t = "int" THEN "int" ELSE "float",
                    SignedSub(a.neg, a.m, b.neg, b.m))

\* v[:n + 1]
PySliceOneMore(v, n) ==
    IF v.t = "str" THEN Ok(SubSeq(v.s, 1, IF Len(v.s) < n + 1 THEN Len(v.s) ELSE n + 1))
    ELSE Raise("TypeError", "'" \o TypeName(v) \o "' object is not subscriptable")

\* v[:n]
PySlice(v, n) ==
    IF v.t = "str" THEN Ok(SubSeq(v.s, 1, IF Len(v.s) < n THEN Len(v.s) ELSE n))
    ELSE Raise("TypeError", "'" \o TypeName(v) \o "' object is not subscriptable")

\* f"{v:,.0f}"
PyFormatComma0f(v) ==
    IF ~IsNum(v)
    THEN Raise("ValueError", "Unknown format code 'f' for object of type '"
                             \o TypeName(v) \o "'")
    ELSE IF FloatOverflows(v) THEN Raise("OverflowError", OverflowMsg)
    ELSE Ok(Sign(v) \o Commas(RoundDrop(v.m, 4)))

(***************************************************************************)
(* safe_get and format_number.  A dict is a function from its keys.        *)
(***************************************************************************)
NA == Str("N/A")

Zero == PyInt(FALSE, "0")

NoDescription == Str("No description available")

\* safe_get without the `is not None` test
safe_get_any(data, key, default) == IF key \in DOMAIN data THEN data[key] ELSE default

safe_get(data, key, default) ==
    IF key \in DOMAIN data /\ data[key].t # "none" THEN data[key] ELSE default

\* the three branches of the try block of format_number
FormatBody(value, is_currency, is_percentage) ==
    IF ~IsNum(value) THEN Ok(PyStr(value))
    ELSE IF FloatOverflows(value) THEN Raise("OverflowError", OverflowMsg)
    ELSE IF is_percentage THEN Ok(Fixed2Plain(value.neg, value.m) \o "%")
    ELSE IF is_currency THEN Ok("$" \o Fixed2(value.neg, RoundDrop(value.m, 2)))
    ELSE Ok(Fixed2(value.neg, RoundDrop(value.m, 2)))

\* except (ValueError, TypeError)
FormatCatches(cls) == cls \in {"ValueError", "TypeError"}

\* try: ... except (ValueError, TypeError): return str(value)
FormatTry(value, r) == IF ~r.ok /\ FormatCatches(r.exc) THEN Ok(PyStr(value)) ELSE r

format_number(value, is_currency, is_percentage) ==
    IF value = NA \/ value.t = "none" THEN Ok("N/A")
    ELSE FormatTry(value, FormatBody(value, is_currency, is_percentage))

(***************************************************************************)
(* The report templates: the f-string of each builder, as the sequence of  *)
(* its replacement fields, each with the literal text that precedes it.    *)
(* unit says how the field is rendered:                                    *)
(*   ticker      ticker.upper()                                            *)
(*   raw         safe_get(info, key)                                       *)
(*   plain, currency, percentage                                           *)
(*               format_number(safe_get(info, key, dflt), ...)             *)
(*   netcash     format_number(safe_get(info, 'totalCash', 0)              *)
(*                             - safe_get(info, 'totalDebt', 0), currency) *)
(*   summary     safe_get(info, key, dflt)[:500]                           *)
(***************************************************************************)
get_company_overview_template ==
    <<
       [pre |-> "\nCompany Overview for ",
        unit |-> "ticker", key |-> "", dflt |-> NA],
       [pre |-> ":\n==================================================\nCompany Name: ",
        unit |-> "raw", key |-> "longName", dflt |-> NA],
       [pre |-> "\nSector: ",
        unit |-> "raw", key |-> "sector", dflt |-> NA],
       [pre |-> "\nIndustry: ",
        unit |-> "raw", key |-> "industry", dflt |-> NA],
       [pre |-> "\nCountry: ",
        unit |-> "raw", key |-> "country", dflt |-> NA],
       [pre |-> "\nWebsite: ",
        unit |-> "raw", key |-> "website", dflt |-> NA],
       [pre |-> "\nEmployees: ",
        unit |-> "plain", key |-> "fullTimeEmployees", dflt |-> NA],
       [pre |-> "\n\nBusiness Summary:\n",
        unit |-> "summary", key |-> "longBusinessSummary", dflt |-> NoDescription]
    >>

get_company_overview_tail == "...\n        "

get_valuation_metrics_template ==
    <<
       [pre |-> "\nValuation Metrics for ",
        unit |-> "ticker", key |-> "", dflt |-> NA],
       [pre |-> ":\n==================================================\nMarket Cap: ",
        unit |-> "currency", key |-> "marketCap", dflt |-> NA],
       [pre |-> "\nEnterprise Value: ",
        unit |-> "currency", key |-> "enterpriseValue", dflt |-> NA],
       [pre |-> "\n\nPrice Ratios:\n  * P/E Ratio (TTM): ",
        unit |-> "plain", key |-> "trailingPE", dflt |-> NA],
       [pre |-> "\n  * Forward P/E: ",
        unit |-> "plain", key |-> "forwardPE", dflt |-> NA],
       [pre |-> "\n  * P/B Ratio: ",
        unit |-> "plain", key |-> "priceToBook", dflt |-> NA],
       [pre |-> "\n  * P/S Ratio (TTM): ",
        unit |-> "plain", key |-> "priceToSalesTrailing12Months", dflt |-> NA],
       [pre |-> "\n  * PEG Ratio: ",
        unit |-> "plain", key |-> "pegRatio", dflt |-> NA],
       [pre |-> "\n\nEnterprise Ratios:\n  * EV/Revenue: ",
        unit |-> "plain", key |-> "enterpriseToRevenue", dflt |-> NA],
       [pre |-> "\n  * EV/EBITDA: ",
        unit |-> "plain", key |-> "enterpriseToEbitda", dflt |-> NA],
       [pre |-> "\n\nBook Value per Share: ",
        unit |-> "currency", key |-> "bookValue", dflt |-> NA]
    >>

get_valuation_metrics_tail == "\n        "

get_financial_health_template ==
    <<
       [pre |-> "\nFinancial Health for ",
        unit |-> "ticker", key |-> "", dflt |-> NA],
       [pre |-> ":\n==================================================\nBalance Sheet:\n  * Total Cash: ",
        unit |-> "currency", key |-> "totalCash", dflt |-> NA],
       [pre |-> "\n  * Total Debt: ",
        unit |-> "currency", key |-> "totalDebt", dflt |-> NA],
       [pre |-> "\n  * Net Cash: ",
        unit |-> "netcash", key |-> "totalCash", dflt |-> Zero],
       [pre |-> "\n\nLiquidity Ratios:\n  * Current Ratio: ",
        unit |-> "plain", key |-> "currentRatio", dflt |-> NA],
       [pre |-> "\n  * Quick Ratio: ",
        unit |-> "plain", key |-> "quickRatio", dflt |-> NA],
       [pre |-> "\n\nDebt Ratios:\n  * Debt-to-Equity: ",
        unit |-> "plain", key |-> "debtToEquity", dflt |-> NA],
       [pre |-> "\n  * Total Cash per Share: ",
        unit |-> "currency", key |-> "totalCashPerShare", dflt |-> NA],
       [pre |-> "\n\nOther Metrics:\n  * Working Capital: ",
        unit |-> "currency", key |-> "workingCapital", dflt |-> NA],
       [pre |-> "\n  * Free Cash Flow: ",
        unit |-> "currency", key |-> "freeCashflow", dflt |-> NA]
    >>

get_financial_health_tail == "\n        "

get_profitability_metrics_template ==
    <<
       [pre |-> "\nProfitability Metrics for ",
        unit |-> "ticker", key |-> "", dflt |-> NA],
       [pre |-> ":\n==================================================\nRevenue & Earnings:\n  * Total Revenue (TTM): ",
        unit |-> "currency", key |-> "totalRevenue", dflt |-> NA],
       [pre |-> "\n  * Net Income (TTM): ",
        unit |-> "currency", key |-> "netIncomeToCommon", dflt |-> NA],
       [pre |-> "\n  * EBITDA: ",
        unit |-> "currency", key |-> "ebitda", dflt |-> NA],
       [pre |-> "\n\nMargins:\n  * Profit Margin: ",
        unit |-> "percentage", key |-> "profitMargins", dflt |-> NA],
       [pre |-> "\n  * Operating Margin: ",
        unit |-> "percentage", key |-> "operatingMargins", dflt |-> NA],
       [pre |-> "\n  * Gross Margin: ",
        unit |-> "percentage", key |-> "grossMargins", dflt |-> NA],
       [pre |-> "\n  * EBITDA Margin: ",
        unit |-> "percentage", key |-> "ebitdaMargins", dflt |-> NA],
       [pre |-> "\n\nReturns:\n  * Return on Equity (ROE): ",
        unit |-> "percentage", key |-> "returnOnEquity", dflt |-> NA],
       [pre |-> "\n  * Return on Assets (ROA): ",
        unit |-> "percentage", key |-> "returnOnAssets", dflt |-> NA],
       [pre |-> "\n\nPer Share Metrics:\n  * EPS (TTM): ",
        unit |-> "currency", key |-> "trailingEps", dflt |-> NA],
       [pre |-> "\n  * Forward EPS: ",
        unit |-> "currency", key |-> "forwardEps", dflt |-> NA],
       [pre |-> "\n  * Revenue per Share: ",
        unit |-> "currency", key |-> "revenuePerShare", dflt |-> NA]
    >>

get_profitability_metrics_tail == "\n        "

get_growth_metrics_template ==
    <<
       [pre |-> "\nGrowth Metrics for ",
        unit |-> "ticker", key |-> "", dflt |-> NA],
       [pre |-> ":\n==================================================\nHistorical Growth:\n  * Revenue Growth (TTM): ",
        unit |-> "percentage", key |-> "revenueGrowth", dflt |-> NA],
       [pre |-> "\n  * Earnings Growth: ",
        unit |-> "percentage", key |-> "earningsGrowth", dflt |-> NA],
       [pre |-> "\n  * Quarterly Revenue Growth: ",
        unit |-> "percentage", key |-> "revenueQuarterlyGrowth", dflt |-> NA],
       [pre |-> "\n  * Quarterly Earnings Growth: ",
        unit |-> "percentage", key |-> "earningsQuarterlyGrowth", dflt |-> NA],
       [pre |-> "\n\nAnalyst Estimates:\n  * Next Year EPS Growth: ",
        unit |-> "percentage", key |-> "earningsGrowth", dflt |-> NA],
       [pre |-> "\n  * Next 5 Years Growth: ",
        unit |-> "percentage", key |-> "earningsGrowth", dflt |-> NA],
       [pre |-> "\n\nBook Value Growth:\n  * Book Value: ",
        unit |-> "currency", key |-> "bookValue", dflt |-> NA],
       [pre |-> "\n  * Tangible Book Value: ",
        unit |-> "currency", key |-> "tangibleBookValue", dflt |-> NA]
    >>

get_growth_metrics_tail == "\n        "

get_dividend_metrics_template ==
    <<
       [pre |-> "\nDividend & Shareholder Returns for ",
        unit |-> "ticker", key |-> "", dflt |-> NA],
       [pre |-> ":\n==================================================\nDividend Information:\n  * Annual Dividend Rate: ",
        unit |-> "currency", key |-> "dividendRate", dflt |-> Zero],
       [pre |-> "\n  * Dividend Yield: ",
        unit |-> "percentage", key |-> "dividendYield", dflt |-> NA],
       [pre |-> "\n  * Payout Ratio: ",
        unit |-> "percentage", key |-> "payoutRatio", dflt |-> NA],
       [pre |-> "\n  * Ex-Dividend Date: ",
        unit |-> "raw", key |-> "exDividendDate", dflt |-> NA],
       [pre |-> "\n  * Last Dividend Date: ",
        unit |-> "raw", key |-> "lastDividendDate", dflt |-> NA],
       [pre |-> "\n\nShare Information:\n  * Shares Outstanding: ",
        unit |-> "plain", key |-> "sharesOutstanding", dflt |-> NA],
       [pre |-> "\n  * Float: ",
        unit |-> "plain", key |-> "floatShares", dflt |-> NA],
       [pre |-> "\n  * Shares Short: ",
        unit |-> "plain", key |-> "sharesShort", dflt |-> NA],
       [pre |-> "\n  * Short Ratio: ",
        unit |-> "plain", key |-> "shortRatio", dflt |-> NA],
       [pre |-> "\n  * Short % of Float: ",
        unit |-> "percentage", key |-> "shortPercentOfFloat", dflt |-> NA],
       [pre |-> "\n\nShare Buybacks:\n  * Shares Short Prior Month: ",
        unit |-> "plain", key |-> "sharesShortPriorMonth", dflt |-> NA]
    >>

get_dividend_metrics_tail == "\n        "

get_trading_metrics_template ==
    <<
       [pre |-> "\nTrading & Market Metrics for ",
        unit |-> "ticker", key |-> "", dflt |-> NA],
       [pre |-> ":\n==================================================\nCurrent Price Information:\n  * Current Price: ",
        unit |-> "currency", key |-> "regularMarketPrice", dflt |-> NA],
       [pre |-> "\n  * Previous Close: ",
        unit |-> "currency", key |-> "regularMarketPreviousClose", dflt |-> NA],
       [pre |-> "\n  * Open: ",
        unit |-> "currency", key |-> "regularMarketOpen", dflt |-> NA],
       [pre |-> "\n  * Day High: ",
        unit |-> "currency", key |-> "regularMarketDayHigh", dflt |-> NA],
       [pre |-> "\n  * Day Low: ",
        unit |-> "currency", key |-> "regularMarketDayLow", dflt |-> NA],
       [pre |-> "\n\nPrice Ranges:\n  * 52-Week High: ",
        unit |-> "currency", key |-> "fiftyTwoWeekHigh", dflt |-> NA],
       [pre |-> "\n  * 52-Week Low: ",
        unit |-> "currency", key |-> "fiftyTwoWeekLow", dflt |-> NA],
       [pre |-> "\n  * 50-Day Average: ",
        unit |-> "currency", key |-> "fiftyDayAverage", dflt |-> NA],
       [pre |-> "\n  * 200-Day Average: ",
        unit |-> "currency", key |-> "twoHundredDayAverage", dflt |-> NA],
       [pre |-> "\n\nVolume & Liquidity:\n  * Volume: ",
        unit |-> "plain", key |-> "regularMarketVolume", dflt |-> NA],
       [pre |-> "\n  * Average Volume (10d): ",
        unit |-> "plain", key |-> "averageVolume10days", dflt |-> NA],
       [pre |-> "\n  * Average Volume (3m): ",
        unit |-> "plain", key |-> "averageVolume", dflt |-> NA],
       [pre |-> "\n\nRisk Metrics:\n  * Beta: ",
        unit |-> "plain", key |-> "beta", dflt |-> NA],
       [pre |-> "\n  * 52-Week Change: ",
        unit |-> "percentage", key |-> "52WeekChange", dflt |-> NA]
    >>

get_trading_metrics_tail == "\n        "

get_analyst_data_template ==
    <<
       [pre |-> "\nAnalyst Data for ",
        unit |-> "ticker", key |-> "", dflt |-> NA],
       [pre |-> ":\n==================================================\nPrice Targets:\n  * Target High Price: ",
        unit |-> "currency", key |-> "targetHighPrice", dflt |-> NA],
       [pre |-> "\n  * Target Low Price: ",
        unit |-> "currency", key |-> "targetLowPrice", dflt |-> NA],
       [pre |-> "\n  * Target Mean Price: ",
        unit |-> "currency", key |-> "targetMeanPrice", dflt |-> NA],
       [pre |-> "\n  * Target Median Price: ",
        unit |-> "currency", key |-> "targetMedianPrice", dflt |-> NA],
       [pre |-> "\n\nRecommendations:\n  * Recommendation Mean: ",
        unit |-> "plain", key |-> "recommendationMean", dflt |-> NA],
       [pre |-> "\n  * Recommendation Key: ",
        unit |-> "raw", key |-> "recommendationKey", dflt |-> NA],
       [pre |-> "\n  * Number of Analyst Opinions: ",
        unit |-> "plain", key |-> "numberOfAnalystOpinions", dflt |-> NA],
       [pre |-> "\n\nEstimates:\n  * Current Quarter Estimate: ",
        unit |-> "percentage", key |-> "earningsQuarterlyGrowth", dflt |-> NA],
       [pre |-> "\n  * Next Quarter Estimate: ",
        unit |-> "percentage", key |-> "earningsGrowth", dflt |-> NA]
    >>

get_analyst_data_tail == "\n        "

get_complete_stock_analysis_template ==
    <<
       [pre |-> "\nCOMPLETE STOCK ANALYSIS: ",
        unit |-> "ticker", key |-> "", dflt |-> NA],
       [pre |-> "\n============================================================================\n\nSNAPSHOT\nCompany: ",
        unit |-> "raw", key |-> "longName", dflt |-> NA],
       [pre |-> "\nSector: ",
        unit |-> "raw", key |-> "sector", dflt |-> NA],
       [pre |-> " | Industry: ",
        unit |-> "raw", key |-> "industry", dflt |-> NA],
       [pre |-> "\nCurrent Price: ",
        unit |-> "currency", key |-> "regularMarketPrice", dflt |-> Zero],
       [pre |-> "\nMarket Cap: ",
        unit |-> "currency", key |-> "marketCap", dflt |-> Zero],
       [pre |-> "\n\nVALUATION METRICS\nP/E Ratio: ",
        unit |-> "plain", key |-> "trailingPE", dflt |-> NA],
       [pre |-> " | Forward P/E: ",
        unit |-> "plain", key |-> "forwardPE", dflt |-> NA],
       [pre |-> "\nP/B Ratio: ",
        unit |-> "plain", key |-> "priceToBook", dflt |-> NA],
       [pre |-> " | P/S Ratio: ",
        unit |-> "plain", key |-> "priceToSalesTrailing12Months", dflt |-> NA],
       [pre |-> "\nEV/EBITDA: ",
        unit |-> "plain", key |-> "enterpriseToEbitda", dflt |-> NA],
       [pre |-> " | PEG Ratio: ",
        unit |-> "plain", key |-> "pegRatio", dflt |-> NA],
       [pre |-> "\n\nPROFITABILITY & EFFICIENCY\nRevenue (TTM): ",
        unit |-> "currency", key |-> "totalRevenue", dflt |-> NA],
       [pre |-> "\nNet Income: ",
        unit |-> "currency", key |-> "netIncomeToCommon", dflt |-> NA],
       [pre |-> "\nProfit Margin: ",
        unit |-> "percentage", key |-> "profitMargins", dflt |-> NA],
       [pre |-> "\nROE: ",
        unit |-> "percentage", key |-> "returnOnEquity", dflt |-> NA],
       [pre |-> " | ROA: ",
        unit |-> "percentage", key |-> "returnOnAssets", dflt |-> NA],
       [pre |-> "\n\nGROWTH METRICS\nRevenue Growth: ",
        unit |-> "percentage", key |-> "revenueGrowth", dflt |-> NA],
       [pre |-> "\nEarnings Growth: ",
        unit |-> "percentage", key |-> "earningsGrowth", dflt |-> NA],
       [pre |-> "\nEPS (TTM): ",
        unit |-> "currency", key |-> "trailingEps", dflt |-> NA],
       [pre |-> "\n\nFINANCIAL HEALTH\nCurrent Ratio: ",
        unit |-> "plain", key |-> "currentRatio", dflt |-> NA],
       [pre |-> "\nDebt-to-Equity: ",
        unit |-> "plain", key |-> "debtToEquity", dflt |-> NA],
       [pre |-> "\nFree Cash Flow: ",
        unit |-> "currency", key |-> "freeCashflow", dflt |-> NA],
       [pre |-> "\nTotal Cash: ",
        unit |-> "currency", key |-> "totalCash", dflt |-> NA],
       [pre |-> "\n\nSHAREHOLDER RETURNS\nDividend Yield: ",
        unit |-> "percentage", key |-> "dividendYield", dflt |-> NA],
       [pre |-> "\nDividend Rate: ",
        unit |-> "currency", key |-> "dividendRate", dflt |-> NA],
       [pre |-> "\nPayout Ratio: ",
        unit |-> "percentage", key |-> "payoutRatio", dflt |-> NA],
       [pre |-> "\n\nTRADING METRICS\n52W High: ",
        unit |-> "currency", key |-> "fiftyTwoWeekHigh", dflt |-> NA],
       [pre |-> " | 52W Low: ",
        unit |-> "currency", key |-> "fiftyTwoWeekLow", dflt |-> NA],
       [pre |-> "\nBeta: ",
        unit |-> "plain", key |-> "beta", dflt |-> NA],
       [pre |-> "\nAverage Volume: ",
        unit |-> "plain", key |-> "averageVolume", dflt |-> NA],
       [pre |-> "\n\nANALYST CONSENSUS\nTarget Price: ",
        unit |-> "currency", key |-> "targetMeanPrice", dflt |-> NA],
       [pre |-> "\nRecommendation: ",
        unit |-> "raw", key |-> "recommendationKey", dflt |-> NA],
       [pre |-> "\nNumber of Analysts: ",
        unit |-> "plain", key |-> "numberOfAnalystOpinions", dflt |-> NA]
    >>

get_complete_stock_analysis_tail == "\n\n============================================================================\n        "

kpi_list ==
    "\n"
    \o "AVAILABLE STOCK KPIs & METRICS\n"
    \o "==================================================\n"
    \o "\n"
    \o "COMPANY OVERVIEW\n"
    \o "* Company Name, Sector, Industry\n"
    \o "* Country, Website, Employee Count\n"
    \o "* Business Summary\n"
    \o "\n"
    \o "VALUATION METRICS\n"
    \o "* Market Capitalization\n"
    \o "* Enterprise Value\n"
    \o "* P/E Ratio (Trailing & Forward)\n"
    \o "* Price-to-Book Ratio\n"
    \o "* Price-to-Sales Ratio\n"
    \o "* PEG Ratio\n"
    \o "* EV/Revenue, EV/EBITDA\n"
    \o "\n"
    \o "PROFITABILITY METRICS\n"
    \o "* Total Revenue (TTM)\n"
    \o "* Net Income\n"
    \o "* EBITDA\n"
    \o "* Profit Margins (Gross, Operating, Net, EBITDA)\n"
    \o "* Return on Equity (ROE)\n"
    \o "* Return on Assets (ROA)\n"
    \o "* Earnings per Share (EPS)\n"
    \o "* Revenue per Share\n"
    \o "\n"
    \o "GROWTH METRICS\n"
    \o "* Revenue Growth\n"
    \o "* Earnings Growth\n"
    \o "* Quarterly Growth Rates\n"
    \o "* Book Value Growth\n"
    \o "\n"
    \o "FINANCIAL HEALTH\n"
    \o "* Current Ratio\n"
    \o "* Quick Ratio\n"
    \o "* Debt-to-Equity Ratio\n"
    \o "* Total Cash & Debt\n"
    \o "* Working Capital\n"
    \o "* Free Cash Flow\n"
    \o "\n"
    \o "DIVIDEND & SHAREHOLDER RETURNS\n"
    \o "* Dividend Yield\n"
    \o "* Dividend Rate\n"
    \o "* Payout Ratio\n"
    \o "* Ex-Dividend Date\n"
    \o "* Shares Outstanding\n"
    \o "* Share Buyback Information\n"
    \o "\n"
    \o "TRADING METRICS\n"
    \o "* Current Price, Open, High, Low\n"
    \o "* 52-Week High/Low\n"
    \o "* Moving Averages (50-day, 200-day)\n"
    \o "* Volume Metrics\n"
    \o "* Beta (Volatility)\n"
    \o "\n"
    \o "ANALYST DATA  \n"
    \o "* Price Targets (High, Low, Mean, Median)\n"
    \o "* Analyst Recommendations\n"
    \o "* Number of Analyst Opinions\n"
    \o "* Earnings Estimates\n"
    \o "\n"
    \o "AVAILABLE FUNCTIONS:\n"
    \o "* get_market_cap(ticker) - Original market cap function\n"
    \o "* get_company_overview(ticker) - Company basic information\n"
    \o "* get_valuation_metrics(ticker) - All valuation ratios\n"
    \o "* get_financial_health(ticker) - Balance sheet & liquidity metrics\n"
    \o "* get_profitability_metrics(ticker) - Profitability & efficiency ratios  \n"
    \o "* get_growth_metrics(ticker) - Growth rates & estimates\n"
    \o "* get_dividend_metrics(ticker) - Dividend & shareholder return data\n"
    \o "* get_trading_metrics(ticker) - Price & volume data\n"
    \o "* get_analyst_data(ticker) - Analyst recommendations & targets\n"
    \o "* get_complete_stock_analysis(ticker) - Comprehensive analysis with all KPIs\n"
    \o "* list_available_kpis() - This function listing all available metrics\n"
    \o "\n"
    \o "Each function provides detailed, formatted output for the specified category of metrics.\n"
    \o "    "

(***************************************************************************)
(* Evaluation of an f-string: the fields are evaluated left to right and   *)
(* the first one that raises ends the evaluation.                          *)
(***************************************************************************)
SlotKeys(seg) ==
    CASE seg.unit = "ticker"  -> {}
      [] seg.unit = "netcash" -> {"totalCash", "totalDebt"}
      [] OTHER                -> {seg.key}

NetCashOf(d) == IF d.ok THEN format_number(d.v, TRUE, FALSE) ELSE d

NetCash(info) ==
    NetCashOf(PySub(safe_get(info, "totalCash", Zero), safe_get(info, "totalDebt", Zero)))

SlotValue(seg, T, info) ==
    CASE seg.unit = "ticker"     -> Ok(T)
      [] seg.unit = "raw"        -> Ok(PyStr(safe_get(info, seg.key, seg.dflt)))
      [] seg.unit = "plain"      ->
           format_number(safe_get(info, seg.key, seg.dflt), FALSE, FALSE)
      [] seg.unit = "currency"   ->
           format_number(safe_get(info, seg.key, seg.dflt), TRUE, FALSE)
      [] seg.unit = "percentage" ->
           format_number(safe_get(info, seg.key, seg.dflt), FALSE, TRUE)
      [] seg.unit = "netcash"    -> NetCash(info)
      [] seg.unit = "summary"    ->
           PySlice(safe_get(info, seg.key, seg.dflt), 500)

RECURSIVE RenderFrom(_, _, _, _, _, _)
RECURSIVE RenderStep(_, _, _, _, _, _, _)
\* field i has the value r (or raised r), having read the keys k so far
RenderStep(segs, i, T, info, acc, k, r) ==
    IF r.ok
    THEN RenderFrom(segs, i + 1, T, info, acc \o segs[i].pre \o r.v, k)
    ELSE [ok |-> FALSE, v |-> "", exc |-> r.exc, msg |-> r.msg, reads |-> k]

RenderFrom(segs, i, T, info, acc, reads) ==
    IF i > Len(segs) THEN [ok |-> TRUE, v |-> acc, exc |-> "", msg |-> "", reads |-> reads]
    ELSE RenderStep(segs, i, T, info, acc, reads \cup SlotKeys(segs[i]),
                    SlotValue(segs[i], T, info))

(***************************************************************************)
(* The external lookup, yf.Ticker(symbol).info.  A behaviour of the lookup *)
(* says what it does with the symbol it is given: raise (the message names *)
(* the symbol), give no record (None), or give a dict.                     *)
(***************************************************************************)
EmptyDict == [k \in {} |-> NoneV]

RaiseWith(cls, msg) == [k |-> "raise", exc |-> cls, msg |-> msg, d |-> EmptyDict]

GiveNone == [k |-> "none", exc |-> "", msg |-> "", d |-> EmptyDict]

Give(d) == [k |-> "dict", exc |-> "", msg |-> "", d |-> d]

Lookup(b, symbol) ==
    IF b.k = "raise"
    THEN [ok |-> FALSE, exc |-> b.exc, msg |-> b.msg \o symbol, none |-> FALSE, d |-> EmptyDict]
    ELSE [ok |-> TRUE, exc |-> "", msg |-> "", none |-> (b.k = "none"), d |-> b.d]

\* `info is None` in place of `not info`
InfoIsNone(o) == o.none

\* `not info`: None and the empty dict are false.
NotInfo(o) == o.none \/ DOMAIN o.d = {}

(***************************************************************************)
(* The tools.  A call gives the string it returns (text), the exception    *)
(* that leaves it if one does (escaped), the symbol it gave the lookup and *)
(* the keys of the record it read.                                         *)
(***************************************************************************)
\* except Exception: the classes the clause catches
ExceptionClasses ==
    {"Exception", "AttributeError", "TypeError", "ValueError", "OverflowError",
     "ConnectionError"}

\* except (ValueError, TypeError), the clause of format_number
HandlerCatchesFew(cls) == cls \in {"ValueError", "TypeError"}

HandlerCatches(cls) == cls \in ExceptionClasses

Returned(text, symbol, reads) ==
    [text |-> text, escaped |-> "", symbol |-> symbol, reads |-> reads]

\* try: body / except Exception as e: return f"{label}{ticker.upper()}: {e}"
Handled(r, label, ticker, symbol, reads) ==
    IF r.ok THEN Returned(r.v, symbol, reads)
    ELSE IF HandlerCatches(r.exc)
    THEN Returned(label \o Upper(ticker) \o ": " \o r.msg, symbol, reads)
    ELSE [text |-> "", escaped |-> r.exc, symbol |-> symbol, reads |-> reads]

NoDataMessage(ticker) == "No data found for ticker " \o Upper(ticker)

\* yf.Ticker(ticker) without .upper()
SymbolAsGiven(ticker) == ticker

\* the symbol a tool hands to yf.Ticker
Symbol(ticker) == Upper(ticker)

\* the body shared by the nine builders: r is the evaluation of the
\* f-string, o what the lookup gave
BuilderReport(ticker, r, tail, label) ==
    Handled(IF r.ok THEN Ok(Strip(r.v \o tail)) ELSE r, label, ticker, Symbol(ticker),
            r.reads)

BuilderWith(ticker, o, template, tail, prereads, label) ==
    IF ~o.ok THEN Handled(o, label, ticker, Symbol(ticker), {})
    ELSE IF NotInfo(o) THEN Returned(NoDataMessage(ticker), Symbol(ticker), {})
    ELSE BuilderReport(ticker, RenderFrom(template, 1, Upper(ticker), o.d, "", prereads),
                       tail, label)

Builder(ticker, b, template, tail, prereads, label) ==
    BuilderWith(ticker, Lookup(b, Symbol(ticker)), template, tail, prereads, label)

\* the three messages of get_market_cap
MarketCapFound(ticker, text) == "The market cap for " \o Upper(ticker) \o " is: $" \o text

MarketCapMaybeValid(ticker) ==
    "Could not find market cap data for " \o Upper(ticker)
    \o ", although it might be a valid ticker (e.g., an index or ETF)."

MarketCapInvalid(ticker) ==
    "Could not find market cap data for " \o Upper(ticker)
    \o ". Please ensure it's a valid stock ticker."

MarketCapFormatted(ticker, f) ==
    [ok |-> f.ok, v |-> IF f.ok THEN MarketCapFound(ticker, f.v) ELSE "",
     exc |-> f.exc, msg |-> f.msg, reads |-> {"marketCap"}]

MarketCapBody(ticker, o) ==
    IF o.none
    THEN [ok |-> FALSE, v |-> "", exc |-> "AttributeError",
          msg |-> "'NoneType' object has no attribute 'get'", reads |-> {}]
    ELSE LET market_cap == safe_get(o.d, "marketCap", NoneV)
         IN  IF Truthy(market_cap)
             THEN MarketCapFormatted(ticker, PyFormatComma0f(market_cap))
             ELSE IF DOMAIN o.d # {}
                     /\ safe_get(o.d, "regularMarketPrice", NoneV).t # "none"
             THEN [ok |-> TRUE, v |-> MarketCapMaybeValid(ticker), exc |-> "",
                   msg |-> "", reads |-> {"marketCap", "regularMarketPrice"}]
             ELSE [ok |-> TRUE, v |-> MarketCapInvalid(ticker), exc |-> "", msg |-> "",
                   reads |-> IF DOMAIN o.d # {} THEN {"marketCap", "regularMarketPrice"}
                             ELSE {"marketCap"}]

MarketCapError == "An error occurred while trying to fetch data for "

MarketCapHandled(ticker, r) == Handled(r, MarketCapError, ticker, Symbol(ticker), r.reads)

MarketCapWith(ticker, o) ==
    IF ~o.ok THEN Handled(o, MarketCapError, ticker, Symbol(ticker), {})
    ELSE MarketCapHandled(ticker, MarketCapBody(ticker, o))

get_market_cap(ticker, b) == MarketCapWith(ticker, Lookup(b, Symbol(ticker)))

get_company_overview(ticker, b) ==
    Builder(ticker, b, get_company_overview_template, get_company_overview_tail, {},
            "Error fetching company overview for ")

get_valuation_metrics(ticker, b) ==
    Builder(ticker, b, get_valuation_metrics_template, get_valuation_metrics_tail, {},
            "Error fetching valuation metrics for ")

get_financial_health(ticker, b) ==
    Builder(ticker, b, get_financial_health_template, get_financial_health_tail, {},
            "Error fetching financial health for ")

get_profitability_metrics(ticker, b) ==
    Builder(ticker, b, get_profitability_metrics_template,
            get_profitability_metrics_tail, {}, "Error fetching profitability metrics for ")

get_growth_metrics(ticker, b) ==
    Builder(ticker, b, get_growth_metrics_template, get_growth_metrics_tail, {},
            "Error fetching growth metrics for ")

get_dividend_metrics(ticker, b) ==
    Builder(ticker, b, get_dividend_metrics_template, get_dividend_metrics_tail,
            {"dividendRate"}, "Error fetching dividend metrics for ")

get_trading_metrics(ticker, b) ==
    Builder(ticker, b, get_trading_metrics_template, get_trading_metrics_tail, {},
            "Error fetching trading metrics for ")

get_analyst_data(ticker, b) ==
    Builder(ticker, b, get_analyst_data_template, get_analyst_data_tail, {},
            "Error fetching analyst data for ")

get_complete_stock_analysis(ticker, b) ==
    Builder(ticker, b, get_complete_stock_analysis_template,
            get_complete_stock_analysis_tail, {"regularMarketPrice", "marketCap"},
            "Error fetching complete analysis for ")

list_available_kpis == Strip(kpi_list)

\* the registered tools by name (@mcp.tool())
Dispatch(name, t, b) ==
    CASE name = "get_market_cap"              -> get_market_cap(t, b)
      [] name = "get_company_overview"        -> get_company_overview(t, b)
      [] name = "get_valuation_metrics"       -> get_valuation_metrics(t, b)
      [] name = "get_financial_health"        -> get_financial_health(t, b)
      [] name = "get_profitability_metrics"   -> get_profitability_metrics(t, b)
      [] name = "get_growth_metrics"          -> get_growth_metrics(t, b)
      [] name = "get_dividend_metrics"        -> get_dividend_metrics(t, b)
      [] name = "get_trading_metrics"         -> get_trading_metrics(t, b)
      [] name = "get_analyst_data"            -> get_analyst_data(t, b)
      [] name = "get_complete_stock_analysis" -> get_complete_stock_analysis(t, b)

TemplateOf(name) ==
    CASE name = "get_company_overview"        -> get_company_overview_template
      [] name = "get_valuation_metrics"       -> get_valuation_metrics_template
      [] name = "get_financial_health"        -> get_financial_health_template
      [] name = "get_profitability_metrics"   -> get_profitability_metrics_template
      [] name = "get_growth_metrics"          -> get_growth_metrics_template
      [] name = "get_dividend_metrics"        -> get_dividend_metrics_template
      [] name = "get_trading_metrics"         -> get_trading_metrics_template
      [] name = "get_analyst_data"            -> get_analyst_data_template
      [] name = "get_complete_stock_analysis" -> get_complete_stock_analysis_template

(***************************************************************************)
(* The inputs of the model.                                                *)
(***************************************************************************)
TickerList == <<"aapl", "AAPL", "Brk.b", "zzzz", "msft">>

NumTickers == 2

Tickers == {TickerList[i] : i \in 1..NumTickers}

\* an int too large for a double: 10^309
BigInt == PyInt(FALSE, "1" \o Zeros(309))

Numbers ==
    {Zero, PyInt(FALSE, "1000"), PyInt(FALSE, "400"), PyInt(FALSE, "1234567"),
     PyInt(FALSE, "3000000000000"), PyInt(TRUE, "250"),
     PyFloat(FALSE, "0", "1234"), PyFloat(FALSE, "1234", "5000"),
     PyFloat(FALSE, "0", "1250"), PyFloat(FALSE, "2", "5000"),
     PyFloat(TRUE, "0", "0010"), BigInt}

Strings == {Str("abc"), Str("N/A"), Str(""), Str("Infinity"), Str("  padded ")}

Values == Numbers \cup Strings \cup {NoneV}

\* the values tried for both operands of the net cash figure
Operands ==
    {PyInt(FALSE, "1000"), PyInt(FALSE, "400"), PyInt(TRUE, "250"),
     PyFloat(FALSE, "1234", "5000"), BigInt, Str("abc"), NoneV}

\* A business summary of n characters.  Its first 500 characters are words
\* of letters (the 500th is inside a word); every character after the
\* 500th is "#", which no template and no other value contains.
MaxOver == 2

SummaryText(n) ==
    IF n <= 500 THEN SubSeq(Rep("lorem ipsu", 50), 1, n)
    ELSE Rep("lorem ipsu", 50) \o Rep("#", n - 500)

SummaryLengths == {0, 1, 499, 500} \cup {500 + i : i \in 1..MaxOver}

TemplateKeys(template) == UNION {SlotKeys(template[i]) : i \in 1..Len(template)}

AllKeys ==
    TemplateKeys(get_company_overview_template)
    \cup TemplateKeys(get_valuation_metrics_template)
    \cup TemplateKeys(get_financial_health_template)
    \cup TemplateKeys(get_profitability_metrics_template)
    \cup TemplateKeys(get_growth_metrics_template)
    \cup TemplateKeys(get_dividend_metrics_template)
    \cup TemplateKeys(get_trading_metrics_template)
    \cup TemplateKeys(get_analyst_data_template)
    \cup TemplateKeys(get_complete_stock_analysis_template)
    \cup {"marketCap", "regularMarketPrice"}

\* the keys whose absence, type or value some tool treats specially
FocusKeys ==
    {"marketCap", "regularMarketPrice", "totalCash", "totalDebt", "dividendRate",
     "longBusinessSummary", "sector"}

Uniform(v) == [k \in AllKeys |-> v]

Single(key, v) == [k \in {key} |-> v]

Pair(k1, v1, k2, v2) == [k \in {k1, k2} |-> IF k = k1 THEN v1 ELSE v2]

\* every key present and numeric but one, which is absent
AllBut(key, v) == [k \in AllKeys \ {key} |-> v]

Dicts ==
    {EmptyDict, Single("symbol", Str("AAPL"))}
    \cup {Uniform(v) : v \in Values}
    \cup {Single(k, v) : k \in FocusKeys, v \in Values}
    \cup {Pair("totalCash", c, "totalDebt", d) : c, d \in Operands}
    \cup {Pair("marketCap", c, "regularMarketPrice", d) :
             c \in {Zero, NoneV, Str(""), PyInt(FALSE, "1000")},
             d \in {Zero, NoneV, PyFloat(FALSE, "1234", "5000")}}
    \cup {AllBut(k, PyInt(FALSE, "1000")) : k \in FocusKeys}
    \cup {Single("longBusinessSummary", Str(SummaryText(n))) : n \in SummaryLengths}

Behaviours ==
    {GiveNone, RaiseWith("ConnectionError", "Failed to resolve host for "),
     RaiseWith("Exception", "No data for symbol "),
     RaiseWith("ValueError", "Invalid symbol: ")}
    \cup {Give(d) : d \in Dicts}

(***************************************************************************)
(* The state: the invocation in progress, as the host sees it.  A tool is  *)
(* called when the host is idle; it runs to its end (one blocking call)    *)
(* and the host then takes the result.                                     *)
(***************************************************************************)
VARIABLES pc, tool, ticker, beh, symbol, result, escaped, reads

\* A direct application of format_number (used by SpecFormat only):
\* its arguments and what it gave.
VARIABLES fpc, fvalue, fcurrency, fpercentage, fout

\* Invocations in flight at the same time (used by SpecCalls only).  For
\* each slot of the host: where the invocation is, its tool and ticker,
\* what the lookup did for it, the string it returned and how many times it
\* read .info; for each frame: the local variables stock (the handle, by
\* number) and info; and the two things all invocations share: the number
\* of handles constructed so far and the number of records logged.
VARIABLES cpc, ctool, cticker, cbeh, cresult, fetches, stock, info, handles, logged

cvars == <<pc, tool, ticker, beh, symbol, result, escaped, reads>>

fvars == <<fpc, fvalue, fcurrency, fpercentage, fout>>

kvars == <<cpc, ctool, cticker, cbeh, cresult, fetches, stock, info, handles, logged>>

vars == <<cvars, fvars, kvars>>

\* the slots in which the host runs invocations side by side
Slots == {"a", "b"}

\* the value of `info` before it is assigned
Unassigned == [ok |-> TRUE, exc |-> "", msg |-> "", none |-> TRUE, d |-> EmptyDict]

NoCalls ==
    /\ cpc = [i \in Slots |-> "idle"]
    /\ ctool = [i \in Slots |-> ""]
    /\ cticker = [i \in Slots |-> ""]
    /\ cbeh = [i \in Slots |-> GiveNone]
    /\ cresult = [i \in Slots |-> ""]
    /\ fetches = [i \in Slots |-> 0]
    /\ stock = [i \in Slots |-> 0]
    /\ info = [i \in Slots |-> Unassigned]
    /\ handles = 0
    /\ logged = 0

NoCall ==
    /\ pc = "idle"
    /\ tool = ""
    /\ ticker = ""
    /\ beh = GiveNone
    /\ symbol = ""
    /\ result = ""
    /\ escaped = ""
    /\ reads = {}

Init ==
    /\ NoCall
    /\ NoCalls
    /\ fpc = "off"
    /\ fvalue = NoneV
    /\ fcurrency = FALSE
    /\ fpercentage = FALSE
    /\ fout = Ok("")

TickerTools ==
    {"get_market_cap", "get_company_overview", "get_valuation_metrics",
     "get_financial_health", "get_profitability_metrics", "get_growth_metrics",
     "get_dividend_metrics", "get_trading_metrics", "get_analyst_data",
     "get_complete_stock_analysis"}

BuilderTools == TickerTools \ {"get_market_cap"}

\* The host calls a ticker-taking tool; what the lookup will do with the
\* symbol it is given is the environment's choice.
Call ==
    /\ pc = "idle"
    /\ \E n \in TickerTools, t \in Tickers, b \in Behaviours :
          /\ tool' = n
          /\ ticker' = t
          /\ beh' = b
    /\ pc' = "called"
    /\ UNCHANGED <<symbol, result, escaped, reads>>
    /\ UNCHANGED <<fvars, kvars>>

CallList ==
    /\ pc = "idle"
    /\ tool' = "list_available_kpis"
    /\ pc' = "called"
    /\ UNCHANGED <<ticker, beh, symbol, result, escaped, reads>>
    /\ UNCHANGED <<fvars, kvars>>

\* the end of a call whose outcome is r
Finish(r) ==
    /\ pc' = "returned"
    /\ symbol' = r.symbol
    /\ result' = r.text
    /\ escaped' = r.escaped
    /\ reads' = r.reads
    /\ UNCHANGED <<tool, ticker, beh>>
    /\ UNCHANGED <<fvars, kvars>>

Run_get_market_cap ==
    /\ pc = "called"
    /\ tool = "get_market_cap"
    /\ Finish(get_market_cap(ticker, beh))

Run_get_company_overview ==
    /\ pc = "called"
    /\ tool = "get_company_overview"
    /\ Finish(get_company_overview(ticker, beh))

Run_get_valuation_metrics ==
    /\ pc = "called"
    /\ tool = "get_valuation_metrics"
    /\ Finish(get_valuation_metrics(ticker, beh))

Run_get_financial_health ==
    /\ pc = "called"
    /\ tool = "get_financial_health"
    /\ Finish(get_financial_health(ticker, beh))

Run_get_profitability_metrics ==
    /\ pc = "called"
    /\ tool = "get_profitability_metrics"
    /\ Finish(get_profitability_metrics(ticker, beh))

Run_get_growth_metrics ==
    /\ pc = "called"
    /\ tool = "get_growth_metrics"
    /\ Finish(get_growth_metrics(ticker, beh))

Run_get_dividend_metrics ==
    /\ pc = "called"
    /\ tool = "get_dividend_metrics"
    /\ Finish(get_dividend_metrics(ticker, beh))

Run_get_trading_metrics ==
    /\ pc = "called"
    /\ tool = "get_trading_metrics"
    /\ Finish(get_trading_metrics(ticker, beh))

Run_get_analyst_data ==
    /\ pc = "called"
    /\ tool = "get_analyst_data"
    /\ Finish(get_analyst_data(ticker, beh))

Run_get_complete_stock_analysis ==
    /\ pc = "called"
    /\ tool = "get_complete_stock_analysis"
    /\ Finish(get_complete_stock_analysis(ticker, beh))

Run_list_available_kpis ==
    /\ pc = "called"
    /\ tool = "list_available_kpis"
    /\ Finish(Returned(list_available_kpis, "", {}))

\* the host takes the result; nothing of the invocation is kept
Deliver ==
    /\ pc = "returned"
    /\ pc' = "idle"
    /\ tool' = ""
    /\ ticker' = ""
    /\ beh' = GiveNone
    /\ symbol' = ""
    /\ result' = ""
    /\ escaped' = ""
    /\ reads' = {}
    /\ UNCHANGED <<fvars, kvars>>

Next ==
    \/ Call
    \/ CallList
    \/ Run_get_market_cap
    \/ Run_get_company_overview
    \/ Run_get_valuation_metrics
    \/ Run_get_financial_health
    \/ Run_get_profitability_metrics
    \/ Run_get_growth_metrics
    \/ Run_get_dividend_metrics
    \/ Run_get_trading_metrics
    \/ Run_get_analyst_data
    \/ Run_get_complete_stock_analysis
    \/ Run_list_available_kpis
    \/ Deliver

Spec == Init /\ [][Next]_vars

(***************************************************************************)
(* format_number on its own: every value of the model under every          *)
(* combination of its two flags.                                           *)
(***************************************************************************)
FormatInputs ==
    Values \cup {PyFloat(FALSE, "0", "3750"), PyFloat(TRUE, "1234", "5000"),
                 PyFloat(FALSE, "1234567", "8910"), PyFloat(FALSE, "0", "0000"),
                 PyInt(FALSE, "999"), PyFloat(FALSE, "999", "9951")}

InitFormat ==
    /\ NoCall
    /\ NoCalls
    /\ fpc = "ready"
    /\ fvalue \in FormatInputs
    /\ fcurrency \in BOOLEAN
    /\ fpercentage \in BOOLEAN
    /\ fout = Ok("")

ApplyFormat ==
    /\ fpc = "ready"
    /\ fpc' = "done"
    /\ fout' = format_number(fvalue, fcurrency, fpercentage)
    /\ UNCHANGED <<fvalue, fcurrency, fpercentage>>
    /\ UNCHANGED <<cvars, kvars>>

NextFormat == ApplyFormat

SpecFormat == InitFormat /\ [][NextFormat]_vars


(***************************************************************************)
(* Invocations side by side.  The host may run a tool while another is     *)
(* blocked in its lookup, so an invocation is taken in steps: the host     *)
(* calls it; it runs up to and including `info = stock.info` (the one      *)
(* blocking call); it runs the rest of its body and returns; the host      *)
(* takes the string.  list_available_kpis has no lookup and runs in one    *)
(* step.  The module has two objects that all invocations share, the       *)
(* logger and the FastMCP instance; only get_market_cap writes to the      *)
(* logger, and no tool reads either.                                       *)
(***************************************************************************)
MaxHandles == 2

CallTickers == {"aapl", "msft"}

CallBehaviours ==
    {RaiseWith("ConnectionError", "Failed to resolve host for "),
     Give(EmptyDict),
     Give(Pair("marketCap", PyInt(FALSE, "1000"), "totalCash", PyInt(FALSE, "400")))}

\* the label of the except clause of a builder
LabelOf(name) ==
    CASE name = "get_company_overview"        -> "Error fetching company overview for "
      [] name = "get_valuation_metrics"       -> "Error fetching valuation metrics for "
      [] name = "get_financial_health"        -> "Error fetching financial health for "
      [] name = "get_profitability_metrics"   -> "Error fetching profitability metrics for "
      [] name = "get_growth_metrics"          -> "Error fetching growth metrics for "
      [] name = "get_dividend_metrics"        -> "Error fetching dividend metrics for "
      [] name = "get_trading_metrics"         -> "Error fetching trading metrics for "
      [] name = "get_analyst_data"            -> "Error fetching analyst data for "
      [] name = "get_complete_stock_analysis" -> "Error fetching complete analysis for "

\* what follows the last field of a builder's f-string
TailOf(name) ==
    CASE name = "get_company_overview"        -> get_company_overview_tail
      [] name = "get_valuation_metrics"       -> get_valuation_metrics_tail
      [] name = "get_financial_health"        -> get_financial_health_tail
      [] name = "get_profitability_metrics"   -> get_profitability_metrics_tail
      [] name = "get_growth_metrics"          -> get_growth_metrics_tail
      [] name = "get_dividend_metrics"        -> get_dividend_metrics_tail
      [] name = "get_trading_metrics"         -> get_trading_metrics_tail
      [] name = "get_analyst_data"            -> get_analyst_data_tail
      [] name = "get_complete_stock_analysis" -> get_complete_stock_analysis_tail

\* the fields a builder reads into locals before its f-string
PrereadsOf(name) ==
    CASE name = "get_dividend_metrics"        -> {"dividendRate"}
      [] name = "get_complete_stock_analysis" -> {"regularMarketPrice", "marketCap"}
      [] OTHER                                -> {}

\* the body of a ticker-taking tool after `info = stock.info`, o being what
\* that statement gave or raised
Respond(name, t, o) ==
    IF name = "get_market_cap" THEN MarketCapWith(t, o)
    ELSE BuilderWith(t, o, TemplateOf(name), TailOf(name), PrereadsOf(name), LabelOf(name))

\* the records a tool logs before its lookup (logger.info on entry)
LogsAtEntry(name) == IF name = "get_market_cap" THEN 1 ELSE 0

\* the records a tool logs after its lookup: one on each of the four paths
\* of get_market_cap
LogsAtExit(name) == IF name = "get_market_cap" THEN 1 ELSE 0

\* all invocations keep their locals in one frame (as module globals would)
SharedFrame(i) == "a"

\* the frame that holds the locals of the invocation in slot i: its own
Frame(i) == i

\* the host calls a ticker-taking tool in a free slot
CallTool(i) ==
    /\ cpc[i] = "idle"
    /\ \E n \in TickerTools, t \in CallTickers :
          /\ ctool' = [ctool EXCEPT ![i] = n]
          /\ cticker' = [cticker EXCEPT ![i] = t]
    /\ cpc' = [cpc EXCEPT ![i] = "called"]
    /\ UNCHANGED <<cbeh, cresult, fetches, stock, info, handles, logged>>
    /\ UNCHANGED <<cvars, fvars>>

\* the host calls list_available_kpis in a free slot
CallKpis(i) ==
    /\ cpc[i] = "idle"
    /\ ctool' = [ctool EXCEPT ![i] = "list_available_kpis"]
    /\ cpc' = [cpc EXCEPT ![i] = "called"]
    /\ UNCHANGED <<cticker, cbeh, cresult, fetches, stock, info, handles, logged>>
    /\ UNCHANGED <<cvars, fvars>>

\* stock = yf.Ticker(ticker.upper()); info = stock.info -- with b what the
\* lookup does this time
FetchWith(i, b) ==
    /\ cbeh' = [cbeh EXCEPT ![i] = b]
    /\ handles' = handles + 1
    /\ stock' = [stock EXCEPT ![Frame(i)] = handles + 1]
    /\ info' = [info EXCEPT ![Frame(i)] = Lookup(b, Symbol(cticker[i]))]
    /\ fetches' = [fetches EXCEPT ![i] = fetches[i] + 1]
    /\ logged' = logged + LogsAtEntry(ctool[i])
    /\ cpc' = [cpc EXCEPT ![i] = "fetched"]
    /\ UNCHANGED <<ctool, cticker, cresult>>
    /\ UNCHANGED <<cvars, fvars>>

\* a tool that looks up again when its lookup raised or gave nothing
FetchOrRetry(i) ==
    /\ \/ cpc[i] = "called"
       \/ cpc[i] = "fetched" /\ (~info[Frame(i)].ok \/ NotInfo(info[Frame(i)]))
    /\ ctool[i] \in TickerTools
    /\ handles < MaxHandles
    /\ \E b \in CallBehaviours : FetchWith(i, b)

\* the invocation runs from its entry to the end of its one lookup
Fetch(i) ==
    /\ cpc[i] = "called"
    /\ ctool[i] \in TickerTools
    /\ handles < MaxHandles
    /\ \E b \in CallBehaviours : FetchWith(i, b)

\* the invocation runs the rest of its body and returns
Format(i) ==
    /\ cpc[i] = "fetched"
    /\ cresult' = [cresult EXCEPT ![i] = Respond(ctool[i], cticker[i], info[Frame(i)]).text]
    /\ logged' = logged + LogsAtExit(ctool[i])
    /\ cpc' = [cpc EXCEPT ![i] = "returned"]
    /\ UNCHANGED <<ctool, cticker, cbeh, fetches, stock, info, handles>>
    /\ UNCHANGED <<cvars, fvars>>

\* list_available_kpis runs: no lookup, no handle, nothing logged
ListKpis(i) ==
    /\ cpc[i] = "called"
    /\ ctool[i] = "list_available_kpis"
    /\ cresult' = [cresult EXCEPT ![i] = list_available_kpis]
    /\ cpc' = [cpc EXCEPT ![i] = "returned"]
    /\ UNCHANGED <<ctool, cticker, cbeh, fetches, stock, info, handles, logged>>
    /\ UNCHANGED <<cvars, fvars>>

\* the host takes the string; the frame of the invocation is gone
DeliverCall(i) ==
    /\ cpc[i] = "returned"
    /\ cpc' = [cpc EXCEPT ![i] = "idle"]
    /\ ctool' = [ctool EXCEPT ![i] = ""]
    /\ cticker' = [cticker EXCEPT ![i] = ""]
    /\ cbeh' = [cbeh EXCEPT ![i] = GiveNone]
    /\ cresult' = [cresult EXCEPT ![i] = ""]
    /\ fetches' = [fetches EXCEPT ![i] = 0]
    /\ stock' = [stock EXCEPT ![Frame(i)] = 0]
    /\ info' = [info EXCEPT ![Frame(i)] = Unassigned]
    /\ UNCHANGED <<handles, logged>>
    /\ UNCHANGED <<cvars, fvars>>

NextCalls ==
    \E i \in Slots :
        \/ CallTool(i)
        \/ CallKpis(i)
        \/ Fetch(i)
        \/ Format(i)
        \/ ListKpis(i)
        \/ DeliverCall(i)

SpecCalls == Init /\ [][NextCalls]_vars


(***************************************************************************)
(* The claims.                                                             *)
(***************************************************************************)
Returned1(name) == pc = "returned" /\ tool = name

\* what the lookup gave the call in progress
Given == Lookup(beh, symbol)

\* the strings a tool returns from its except clause
IsErrorText(text) ==
    StartsWith(text, "Error fetching ") \/ StartsWith(text, "An error occurred ")

\* the record has no usable value under the key
Absent(d, key) == key \notin DOMAIN d \/ d[key].t = "none"

\* C1: every call of a ticker-taking tool ends by returning a string,
\* whatever the lookup did (a record, an empty record, no record, an
\* exception): no exception leaves the tool; and when the lookup raised,
\* the string holds the uppercased ticker and the message of the exception.
C1_AlwaysReturnsString ==
    pc = "returned" /\ tool \in TickerTools =>
        /\ escaped = ""
        /\ result # ""
        /\ beh.k = "raise" =>
              /\ Contains(result, Upper(ticker))
              /\ Contains(result, Given.msg)
              /\ Given.msg = beh.msg \o Upper(ticker)

\* the lookup raised in get_complete_stock_analysis("aapl") and the caller
\* got the string with AAPL and the message
C1_Witness ==
    /\ Returned1("get_complete_stock_analysis")
    /\ ticker = "aapl"
    /\ beh = RaiseWith("ConnectionError", "Failed to resolve host for ")
    /\ escaped = ""
    /\ result = "Error fetching complete analysis for AAPL: Failed to resolve host for AAPL"

\* C5: a builder tool (every ticker-taking tool but get_market_cap) whose
\* lookup gave an empty record or none returns exactly
\* "No data found for ticker <TICKER>", the ticker uppercased, and reads no
\* field of the record; with a non-empty record it never returns that.
C5_NoDataMessage ==
    pc = "returned" /\ tool \in BuilderTools /\ beh.k # "raise" =>
        IF beh.k = "none" \/ DOMAIN beh.d = {}
        THEN /\ result = "No data found for ticker " \o Upper(ticker)
             /\ reads = {}
        ELSE result # "No data found for ticker " \o Upper(ticker)

\* get_trading_metrics("aapl") on an empty record
C5_Witness ==
    /\ Returned1("get_trading_metrics")
    /\ ticker = "aapl"
    /\ beh = Give(EmptyDict)
    /\ result = "No data found for ticker AAPL"
    /\ reads = {}

\* C9: every ticker-taking tool gives the lookup the uppercased ticker and
\* puts only the uppercased ticker in its text, on every path: the call
\* returns what the same tool returns for the uppercased ticker under the
\* same lookup, uppercasing the symbol again changes nothing, and a ticker
\* that is not already uppercase does not occur in the text.
C9_TickerNormalized ==
    pc = "returned" /\ tool \in TickerTools =>
        /\ symbol = Upper(ticker)
        /\ Upper(symbol) = symbol
        /\ result = Dispatch(tool, Upper(ticker), beh).text
        /\ Dispatch(tool, Upper(ticker), beh).symbol = symbol
        /\ ticker # Upper(ticker) => ~Contains(result, ticker)

\* get_company_overview("aapl") on a record: the lookup saw AAPL and the
\* report is titled with AAPL
C9_Witness ==
    /\ Returned1("get_company_overview")
    /\ ticker = "aapl"
    /\ beh.k = "dict"
    /\ symbol = "AAPL"
    /\ StartsWith(result, "Company Overview for AAPL:")

\* C10: in get_company_overview a business summary of more than 500
\* characters is shown as its first 500 characters followed by "...", and
\* no character of it past the 500th occurs in the report.
C10_SummaryTruncated ==
    /\ Returned1("get_company_overview")
    /\ beh.k = "dict"
    /\ ~Absent(beh.d, "longBusinessSummary")
    /\ beh.d["longBusinessSummary"].t = "str"
    /\ Len(beh.d["longBusinessSummary"].s) > 500
    => /\ EndsWith(result, "\n\nBusiness Summary:\n"
                           \o SubSeq(beh.d["longBusinessSummary"].s, 1, 500) \o "...")
       /\ \A j \in 501..Len(beh.d["longBusinessSummary"].s) :
             ~Contains(result, CharAt(beh.d["longBusinessSummary"].s, j))

\* a summary of 502 characters, cut inside a word
C10_Witness ==
    /\ Returned1("get_company_overview")
    /\ beh = Give(Single("longBusinessSummary", Str(SummaryText(502))))
    /\ EndsWith(result, "lorem ipsu...")
    /\ Len(result) = Len("Company Overview for AAPL:") + 51 + Len("Company Name: N/A")
                     + Len("Sector: N/A") + Len("Industry: N/A") + Len("Country: N/A")
                     + Len("Website: N/A") + Len("Employees: N/A") + Len("Business Summary:")
                     + 9 + 503

\* what a slot shows for a field the record lacks: the default the builder
\* hands to safe_get, formatted by the slot's unit
DefaultShown(seg) ==
    IF seg.unit = "summary" THEN "No description available"
    ELSE IF seg.dflt = Zero THEN "$0.00"
    ELSE "N/A"

\* the slots of a template that show one field of the record
FieldSlots(template) ==
    {i \in 1..Len(template) : template[i].unit \notin {"ticker", "netcash"}}

\* the record holds, under a key the builder consumes, a value the builder
\* cannot process: an int too large for a float in a formatted slot or in
\* the net cash difference, an operand of the difference that is not a
\* number, or a summary that is not a string
Unprocessable(template, d) ==
    \E i \in 1..Len(template) :
        \/ /\ template[i].unit \in {"plain", "currency", "percentage"}
           /\ ~Absent(d, template[i].key)
           /\ FloatOverflows(d[template[i].key])
        \/ /\ template[i].unit = "netcash"
           /\ \E k \in {"totalCash", "totalDebt"} :
                 ~Absent(d, k) /\ (~IsNum(d[k]) \/ FloatOverflows(d[k]))
        \/ /\ template[i].unit = "summary"
           /\ ~Absent(d, template[i].key)
           /\ d[template[i].key].t # "str"

\* C2 as stated: in every builder, on every non-empty record, every
\* consumed field that is absent or null is shown as "N/A", and the report
\* is produced.
C2_Original ==
    pc = "returned" /\ tool \in BuilderTools /\ beh.k = "dict" /\ DOMAIN beh.d # {}
    /\ ~Unprocessable(TemplateOf(tool), beh.d) =>
        /\ ~IsErrorText(result)
        /\ \A i \in FieldSlots(TemplateOf(tool)) :
              Absent(beh.d, TemplateOf(tool)[i].key) =>
                  Contains(result, TemplateOf(tool)[i].pre \o "N/A")

\* C2 (amended): in every builder, on every non-empty record, every consumed
\* field that is absent or null is shown as the formatted default of its
\* slot -- "N/A", except "$0.00" for dividendRate in get_dividend_metrics and
\* for regularMarketPrice and marketCap in get_complete_stock_analysis, and
\* "No description available" for longBusinessSummary -- and the report is
\* produced: the result is an error string exactly when a field that is
\* present holds a value the builder cannot process, never because a field
\* is missing.
C2_MissingShowsDefault ==
    pc = "returned" /\ tool \in BuilderTools /\ beh.k = "dict" /\ DOMAIN beh.d # {} =>
        /\ IsErrorText(result) <=> Unprocessable(TemplateOf(tool), beh.d)
        /\ ~IsErrorText(result) =>
              \A i \in FieldSlots(TemplateOf(tool)) :
                  Absent(beh.d, TemplateOf(tool)[i].key) =>
                      Contains(result, TemplateOf(tool)[i].pre
                                       \o DefaultShown(TemplateOf(tool)[i]))

\* get_dividend_metrics on a record with a null sector and nothing else:
\* the missing rate is shown as $0.00, the missing yield as N/A
C2_Witness ==
    /\ Returned1("get_dividend_metrics")
    /\ beh = Give(Single("sector", NoneV))
    /\ Contains(result, "Annual Dividend Rate: $0.00\n")
    /\ Contains(result, "Dividend Yield: N/A\n")
    /\ ~IsErrorText(result)

\* every value of the record is None, a string, or a number that fits a
\* float, and the business summary, if any, is a string
PlainRecord(d) ==
    /\ \A k \in DOMAIN d : ~FloatOverflows(d[k])
    /\ Absent(d, "longBusinessSummary") \/ d["longBusinessSummary"].t = "str"

\* the slots of a template that format one field as a number
NumberSlots(template) ==
    {i \in 1..Len(template) : template[i].unit \in {"plain", "currency", "percentage"}}

\* C3 as stated: in every tool, on every non-empty record, a field that
\* holds a string where a number was expected is shown as that string
\* (up to the blanks stripped from the end of the report) and the report
\* is produced; the result is never an error string because of the type
\* of a field.
C3_Claim ==
    pc = "returned" /\ tool \in TickerTools /\ beh.k = "dict" /\ DOMAIN beh.d # {}
    /\ PlainRecord(beh.d) =>
        /\ ~IsErrorText(result)
        /\ tool \in BuilderTools =>
              \A i \in NumberSlots(TemplateOf(tool)) :
                  /\ ~Absent(beh.d, TemplateOf(tool)[i].key)
                  /\ beh.d[TemplateOf(tool)[i].key].t = "str"
                  => Contains(result, RStrip(TemplateOf(tool)[i].pre
                                             \o beh.d[TemplateOf(tool)[i].key].s))

\* the market cap of the record, None when it has none
MarketCapOf(d) == IF Absent(d, "marketCap") THEN NoneV ELSE d["marketCap"]

\* C4 as stated: get_market_cap, when the lookup does not raise, gives one
\* of three results.  A record with a market cap (a non-zero number) gives
\* a string with the uppercased ticker and "$" and the value with thousands
\* separators; a record without one (absent, null, zero or empty) but with
\* a regularMarketPrice gives the "might be a valid ticker (e.g., an index
\* or ETF)" message; anything else, an empty record and no record included,
\* gives the "ensure it's a valid ... ticker" message.
C4_Claim ==
    Returned1("get_market_cap") /\ beh.k # "raise" =>
        IF beh.k = "dict" /\ IsNum(MarketCapOf(beh.d)) /\ Truthy(MarketCapOf(beh.d))
        THEN ~FloatOverflows(MarketCapOf(beh.d)) =>
                /\ Contains(result, Upper(ticker))
                /\ Contains(result, "$" \o Sign(MarketCapOf(beh.d))
                                    \o Commas(RoundDrop(MarketCapOf(beh.d).m, 4)))
                /\ MarketCapOf(beh.d) = PyInt(FALSE, "3000000000000") =>
                      Contains(result, "$3,000,000,000")
        ELSE IF beh.k = "dict" /\ Truthy(MarketCapOf(beh.d))
        THEN TRUE
        ELSE IF beh.k = "dict" /\ ~Absent(beh.d, "regularMarketPrice")
        THEN Contains(result, "might be a valid ticker (e.g., an index or ETF)")
        ELSE Contains(result, "ensure it's a valid")

\* an operand of the net cash figure: the field, or zero when it is absent
\* or null
OperandOf(d, key) == IF Absent(d, key) THEN Zero ELSE d[key]

\* "$" and the difference a - b of two numbers, to two decimals
NetCashShown(a, b) ==
    "$" \o Fixed2(SignedSub(a.neg, a.m, b.neg, b.m).neg /\ (a.t = "float" \/ b.t = "float"
                      \/ SignedSub(a.neg, a.m, b.neg, b.m).m # "0"),
                  RoundDrop(SignedSub(a.neg, a.m, b.neg, b.m).m, 2))

\* the slots of a template computed from more than one field
DerivedSlots(template) ==
    {i \in 1..Len(template) : Cardinality(SlotKeys(template[i])) > 1}

\* C8 as stated: get_financial_health on a non-empty record has a Net Cash
\* line, which for operands that are numbers or missing shows the
\* currency formatting of totalCash - totalDebt with a missing operand
\* taken as zero (1000 and 400 give $600.00; 1000 alone gives $1,000.00);
\* and no other slot of any builder is computed from more than one field.
C8_Claim ==
    /\ Returned1("get_financial_health") /\ beh.k = "dict" /\ DOMAIN beh.d # {} =>
           /\ Contains(result, "Net Cash: ")
           /\ IsNum(OperandOf(beh.d, "totalCash")) /\ IsNum(OperandOf(beh.d, "totalDebt"))
              /\ ~FloatOverflows(OperandOf(beh.d, "totalCash"))
              /\ ~FloatOverflows(OperandOf(beh.d, "totalDebt"))
              => Contains(result, "Net Cash: "
                                  \o NetCashShown(OperandOf(beh.d, "totalCash"),
                                                  OperandOf(beh.d, "totalDebt")) \o "\n")
           /\ beh.d = Pair("totalCash", PyInt(FALSE, "1000"), "totalDebt", PyInt(FALSE, "400"))
                 => Contains(result, "Net Cash: $600.00\n")
           /\ beh.d = Single("totalCash", PyInt(FALSE, "1000"))
                 => Contains(result, "Net Cash: $1,000.00\n")
    /\ \A name \in BuilderTools :
          DerivedSlots(TemplateOf(name))
              = IF name = "get_financial_health"
                THEN {i \in 1..Len(TemplateOf(name)) : TemplateOf(name)[i].unit = "netcash"}
                ELSE {}

\* C6 as stated: format_number never raises; it gives "N/A" for None and
\* for "N/A", and the string itself for any other string, under every unit.
C6_Claim ==
    fpc = "done" =>
        /\ fout.ok
        /\ fvalue.t = "none" \/ fvalue = NA => fout.v = "N/A"
        /\ fvalue.t = "str" => fout.v = fvalue.s
        /\ fvalue = Str("abc") /\ fcurrency /\ ~fpercentage => fout.v = "abc"

\* the number to two decimals, with thousands separators
TwoDecimals(v) == Fixed2(v.neg, RoundDrop(v.m, 2))

\* the number times 100, to two decimals
TimesHundred(v) == Fixed2Plain(v.neg, v.m)

\* C7 as stated: for every number, format_number gives value*100 to two
\* decimals and "%" as a percentage, "$" and the value to two decimals with
\* thousands separators as currency, and the value to two decimals with
\* thousands separators as a plain number; 0.1234 gives 12.34%, 1234567
\* gives $1,234,567.00 and 1234.5 gives 1,234.50.
C7_Claim ==
    fpc = "done" /\ IsNum(fvalue) /\ ~(fcurrency /\ fpercentage) =>
        /\ fout.ok
        /\ fout.v = IF fpercentage THEN TimesHundred(fvalue) \o "%"
                    ELSE IF fcurrency THEN "$" \o TwoDecimals(fvalue)
                    ELSE TwoDecimals(fvalue)
        /\ fvalue = PyFloat(FALSE, "0", "1234") /\ fpercentage => fout.v = "12.34%"
        /\ fvalue = PyInt(FALSE, "1234567") /\ fcurrency => fout.v = "$1,234,567.00"
        /\ fvalue = PyFloat(FALSE, "1234", "5000") /\ ~fcurrency /\ ~fpercentage
              => fout.v = "1,234.50"

\* the invocation in slot i has done its lookup
HasFetched(i) == cpc[i] \in {"fetched", "returned"} /\ ctool[i] \in TickerTools

\* C11: an invocation of a ticker-taking tool reads .info exactly once, on
\* a handle it constructed itself, before it formats anything, and never
\* again, whether the lookup raised, gave an empty record or gave a
\* record: no fetch before the call runs, one fetch and still no text when
\* the lookup is done, one fetch when it has returned; the handles of two
\* invocations in flight differ and each is one of the handles constructed
\* so far; list_available_kpis fetches nothing and has no handle.
C11_OneFetchPerCall ==
    /\ \A i \in Slots :
          /\ cpc[i] \in {"idle", "called"} =>
                fetches[i] = 0 /\ cresult[i] = "" /\ stock[Frame(i)] = 0
          /\ cpc[i] = "fetched" =>
                ctool[i] \in TickerTools /\ fetches[i] = 1 /\ cresult[i] = ""
          /\ cpc[i] = "returned" =>
                fetches[i] = IF ctool[i] \in TickerTools THEN 1 ELSE 0
          /\ HasFetched(i) => stock[Frame(i)] \in 1..handles
          /\ ctool[i] = "list_available_kpis" => fetches[i] = 0 /\ stock[Frame(i)] = 0
    /\ \A i, j \in Slots :
          i # j /\ HasFetched(i) /\ HasFetched(j) => stock[Frame(i)] # stock[Frame(j)]
    /\ handles >= Cardinality({i \in Slots : HasFetched(i)})

\* an invocation whose lookup raised has returned after one fetch, on the
\* second handle constructed, next to a list_available_kpis that has
\* returned without any
C11_Witness ==
    /\ cpc["a"] = "returned"
    /\ ctool["a"] = "get_valuation_metrics"
    /\ cbeh["a"].k = "raise"
    /\ fetches["a"] = 1
    /\ stock[Frame("a")] = 2
    /\ handles = 2
    /\ cresult["a"] = "Error fetching valuation metrics for MSFT: Failed to resolve host for MSFT"
    /\ cpc["b"] = "returned"
    /\ ctool["b"] = "list_available_kpis"
    /\ fetches["b"] = 0

\* C12: invocations are independent.  Whatever the other slot is doing and
\* whatever ran before (any number of handles constructed and of records
\* logged), an invocation that has done its lookup holds in `info` what its
\* own lookup gave, and an invocation that has returned has returned what
\* the tool, run alone, returns for its ticker and for what its own lookup
\* did; list_available_kpis has returned the catalogue, the same string on
\* every call.
C12_Independent ==
    \A i \in Slots :
        /\ cpc[i] = "fetched" => info[Frame(i)] = Lookup(cbeh[i], Upper(cticker[i]))
        /\ cpc[i] = "returned" /\ ctool[i] \in TickerTools =>
              cresult[i] = Dispatch(ctool[i], cticker[i], cbeh[i]).text
        /\ cpc[i] = "returned" /\ ctool[i] = "list_available_kpis" =>
              /\ cresult[i] = Strip(kpi_list)
              /\ \A j \in Slots :
                    cpc[j] = "returned" /\ ctool[j] = ctool[i] => cresult[j] = cresult[i]

\* get_market_cap("aapl") and get_company_overview("msft"), in flight
\* together, have both returned, each what its own lookup calls for
C12_Witness ==
    /\ cpc["a"] = "returned"
    /\ ctool["a"] = "get_market_cap"
    /\ cticker["a"] = "aapl"
    /\ cresult["a"] = "The market cap for AAPL is: $1,000"
    /\ cpc["b"] = "returned"
    /\ ctool["b"] = "get_company_overview"
    /\ cticker["b"] = "msft"
    /\ cresult["b"] = "No data found for ticker MSFT"
    /\ stock[Frame("a")] = 2
    /\ stock[Frame("b")] = 1
    /\ logged = 2

=============================================================================
